---- MODULE Spec2Model ----
(***************************************************************************)
(* Model of crates/polars-io/src/opendal.rs: OpendalReader, a lazily       *)
(* materialised reader over an object of a remote store.  The cell `bytes` *)
(* is a OnceLock<Option<Cursor<Vec<u8>>>>; to_bytes takes &self and may be *)
(* called from several threads at once, read and seek take &mut self and   *)
(* are therefore exclusive.                                                *)
(***************************************************************************)
EXTENDS Integers, Sequences, FiniteSets, TLC

\* ---------------------------------------------------------------- bounds
\* Longest object content considered.
MaxLen == 2

\* Largest magnitude of a signed seek offset (SeekFrom::Current, ::End).
MaxOff == 1

\* Threads sharing one adapter.
Threads == {"t1", "t2"}

\* The thread that owns the adapter: the only one that can borrow it mutably.
Owner == "t1"

\* Stand-in for u64::MAX, the largest cursor position (scaled down so that
\* positions past the end and overflowing seeks both occur).
U64Max == MaxLen + 1

\* Longest caller buffer handed to read.
MaxBuf == MaxLen + 1

\* Object contents: the code never inspects a byte's value, so contents of
\* pairwise distinct bytes are taken, ascending or descending, which makes a
\* skipped, repeated or reordered byte visible.  0 fills caller buffers.
Contents ==
    {[i \in 1..k |-> i] : k \in 0..MaxLen}
        \cup {[i \in 1..k |-> MaxLen + 1 - i] : k \in 0..MaxLen}

\* ------------------------------------------------------------- helpers
Min(a, b) == IF a <= b THEN a ELSE b

Fill(k) == [i \in 1..k |-> 0]

\* Option<Cursor<Vec<u8>>> and the not yet written cell.
Uninit == [tag |-> "Uninit", inner |-> <<>>, pos |-> 0]
None == [tag |-> "None", inner |-> <<>>, pos |-> 0]

\* A Cursor::new that starts at the end of its buffer, as a writer opened
\* for appending would.
CursorNew_at_end(b) == [tag |-> "Some", inner |-> b, pos |-> Len(b)]

\* Cursor::new(b.to_vec())
CursorNew(b) == [tag |-> "Some", inner |-> b, pos |-> 0]

\* The remote store's object under the adapter's key.
NoObject == [exists |-> FALSE, data |-> <<>>]
Object(c) == [exists |-> TRUE, data |-> c]

\* Results handed back to a caller of read or seek.
Ok(n, b) == [kind |-> "Ok", n |-> n, buf |-> b]
Err == [kind |-> "Err", n |-> 0, buf |-> <<>>]
Panic == [kind |-> "Panic", n |-> 0, buf |-> <<>>]

\* The panic of get_mut().unwrap() (line 27) on a cell that is not initialised.
CellPanic == [kind |-> "CellPanic", n |-> 0, buf |-> <<>>]

\* Calls: the operation and its argument (read: the buffer's length;
\* seek: the SeekFrom variant and its offset).
NoCall == [name |-> "none", whence |-> "-", n |-> 0]
ToBytesCall == [name |-> "to_bytes", whence |-> "-", n |-> 0]
ReadCall(k) == [name |-> "read", whence |-> "-", n |-> k]
SeekCall(w, n) == [name |-> "seek", whence |-> w, n |-> n]

\* io::SeekFrom: Start(u64), End(i64), Current(i64).
SeekFrom ==
    {<<"Start", n>> : n \in 0..U64Max}
        \cup {<<w, d>> : w \in {"Current", "End"}, d \in (0 - MaxOff)..MaxOff}

\* No to_bytes result yet.
NoView == [tag |-> "NoCall", data |-> <<>>, differs |-> FALSE, waited |-> FALSE]

\* No read or seek completed yet.
NoAfter == [name |-> "none", whence |-> "-", kind |-> "-"]
NoLast == [call |-> NoCall, res |-> Err, pre |-> 0, after |-> NoAfter]

VARIABLES
    store,      \* the object in the remote store (Operator)
    pathUtf8,   \* whether self.path.to_str() is Some
    once,       \* state of the OnceLock: Incomplete, Running, Complete
    bytes,      \* the value in the OnceLock
    fetched,    \* the value the closure produced for the cell (Uninit before)
    initCount,  \* executions of the get_or_init closure
    fetchCount, \* invocations of operator.blocking().read
    pc,         \* each thread's position: idle, closure, fetching, wait
    op,         \* each thread's call in progress
    viewRet,    \* each thread's live to_bytes result (a borrow of the adapter)
    last,       \* the last completed read/seek: call, result, position before
                \* it, and which call completed before it
    drain       \* reading from position 0 to the end: bytes and calls so far

vars == <<store, pathUtf8, once, bytes, fetched, initCount, fetchCount, pc, op, viewRet, last, drain>>

\* ------------------------------------------------- std::io::Cursor<Vec<u8>>
\* A checked_add_signed that saturates at 0 instead of failing.
CheckedAddSigned_saturating(base, off) ==
    IF base + off > U64Max THEN -1 ELSE IF base + off < 0 THEN 0 ELSE base + off

\* u64::checked_add_signed: the sum, or -1 for None (negative or overflowing).
CheckedAddSigned(base, off) ==
    IF base + off < 0 \/ base + off > U64Max THEN -1 ELSE base + off

\* A Cursor::read that consumes what it returns, dropping the bytes before
\* the new position from the buffer.
CursorRead_consuming(c, buf) ==
    LET start == Min(c.pos, Len(c.inner))
        amt == Min(Len(buf), Len(c.inner) - start)
        out == [i \in 1..Len(buf) |-> IF i <= amt THEN c.inner[start + i] ELSE buf[i]]
    IN  [cur |-> [c EXCEPT !.inner = SubSeq(c.inner, start + amt + 1, Len(c.inner)), !.pos = 0],
         res |-> Ok(amt, out)]

\* A Cursor::read that copies but leaves the position where it was.
CursorRead_noadvance(c, buf) ==
    LET start == Min(c.pos, Len(c.inner))
        amt == Min(Len(buf), Len(c.inner) - start)
        out == [i \in 1..Len(buf) |-> IF i <= amt THEN c.inner[start + i] ELSE buf[i]]
    IN  [cur |-> c, res |-> Ok(amt, out)]

\* A Cursor::read that does not clamp the position to the content's length
\* before taking the remaining slice.
CursorRead_unclamped(c, buf) ==
    LET amt == Min(Len(buf), Len(c.inner) - c.pos)
        out == [i \in 1..Len(buf) |-> IF i <= amt THEN c.inner[c.pos + i] ELSE buf[i]]
    IN  [cur |-> [c EXCEPT !.pos = c.pos + amt], res |-> Ok(amt, out)]

\* Cursor::read: copy from the remaining slice, advance by the copied count.
CursorRead(c, buf) ==
    LET start == Min(c.pos, Len(c.inner))
        amt == Min(Len(buf), Len(c.inner) - start)
        out == [i \in 1..Len(buf) |-> IF i <= amt THEN c.inner[start + i] ELSE buf[i]]
    IN  [cur |-> [c EXCEPT !.pos = c.pos + amt], res |-> Ok(amt, out)]

\* A Cursor::seek that takes Current from the start of the buffer.
CursorSeek_absolute(c, whence, n) ==
    IF whence = "Start"
    THEN [cur |-> [c EXCEPT !.pos = n], res |-> Ok(n, <<>>)]
    ELSE LET base == IF whence = "End" THEN Len(c.inner) ELSE 0
             target == CheckedAddSigned(base, n)
         IN  IF target < 0
             THEN [cur |-> c, res |-> Err]
             ELSE [cur |-> [c EXCEPT !.pos = target], res |-> Ok(target, <<>>)]

\* A Cursor::seek whose End is the last byte instead of one past it.
CursorSeek_lastbyte(c, whence, n) ==
    IF whence = "Start"
    THEN [cur |-> [c EXCEPT !.pos = n], res |-> Ok(n, <<>>)]
    ELSE LET base == IF whence = "End" THEN Len(c.inner) - 1 ELSE c.pos
             target == CheckedAddSigned(base, n)
         IN  IF target < 0
             THEN [cur |-> c, res |-> Err]
             ELSE [cur |-> [c EXCEPT !.pos = target], res |-> Ok(target, <<>>)]

\* A Cursor::seek that rewinds to 0 when the target is out of range.
CursorSeek_clobber(c, whence, n) ==
    IF whence = "Start"
    THEN [cur |-> [c EXCEPT !.pos = n], res |-> Ok(n, <<>>)]
    ELSE LET base == IF whence = "End" THEN Len(c.inner) ELSE c.pos
             target == CheckedAddSigned(base, n)
         IN  IF target < 0
             THEN [cur |-> [c EXCEPT !.pos = 0], res |-> Err]
             ELSE [cur |-> [c EXCEPT !.pos = target], res |-> Ok(target, <<>>)]

\* Cursor::seek.
CursorSeek(c, whence, n) ==
    IF whence = "Start"
    THEN [cur |-> [c EXCEPT !.pos = n], res |-> Ok(n, <<>>)]
    ELSE LET base == IF whence = "End" THEN Len(c.inner) ELSE c.pos
             target == CheckedAddSigned(base, n)
         IN  IF target < 0
             THEN [cur |-> c, res |-> Err]
             ELSE [cur |-> [c EXCEPT !.pos = target], res |-> Ok(target, <<>>)]

\* ------------------------------------------------------------ the adapter
\* A lossy conversion of the path (to_string_lossy): always a string.
to_str_lossy == TRUE

\* self.path.to_str()
to_str == pathUtf8

\* operator.blocking().read(s): the object's bytes, or a failure (no such
\* object, or a transport error whatever the store holds).
BlockingRead(s) ==
    (IF s.exists THEN {[ok |-> TRUE, data |-> s.data]} ELSE {})
        \cup {[ok |-> FALSE, data |-> <<>>]}

\* .ok().map(|b| Cursor::new(b.to_vec()))
FetchedValue(r) == IF r.ok THEN CursorNew(r.data) ELSE None

\* OnceLock::get_or_init, fast path: the cell is initialised.
IsInitialized == once = "Complete"

\* A to_bytes that hands out the cursor's remaining slice.
ToBytesResult_remaining(b, s, w) ==
    IF b.tag = "Some"
    THEN [tag |-> "Some", data |-> SubSeq(b.inner, Min(b.pos, Len(b.inner)) + 1, Len(b.inner)),
          differs |-> (s # Object(b.inner)), waited |-> w]
    ELSE [tag |-> "None", data |-> <<>>, differs |-> s.exists, waited |-> w]

\* to_bytes, line 44: cursor.as_ref().map(|c| c.get_ref().as_ref()).
\* differs records whether the store held something else at that moment,
\* waited whether the caller had blocked in get_or_init.
ToBytesResult(b, s, w) ==
    IF b.tag = "Some"
    THEN [tag |-> "Some", data |-> b.inner, differs |-> (s # Object(b.inner)), waited |-> w]
    ELSE [tag |-> "None", data |-> <<>>, differs |-> s.exists, waited |-> w]

\* A read that serves the buffer itself and not the cursor over it.
ReadResult_from_start(b, k) ==
    IF b.tag = "Some"
    THEN [cur |-> b, res |-> CursorRead([b EXCEPT !.pos = 0], Fill(k)).res]
    ELSE [cur |-> b, res |-> Panic]

\* read, line 52: cursor.as_mut().unwrap().read(buf)
ReadResult(b, k) ==
    IF b.tag = "Some" THEN CursorRead(b, Fill(k)) ELSE [cur |-> b, res |-> Panic]

\* A seek that reports absent content as an error instead of unwrapping.
SeekResult_reports(b, whence, n) ==
    IF b.tag = "Some" THEN CursorSeek(b, whence, n) ELSE [cur |-> b, res |-> Err]

\* seek, line 60: cursor.as_mut().unwrap().seek(pos)
SeekResult(b, whence, n) ==
    IF b.tag = "Some" THEN CursorSeek(b, whence, n) ELSE [cur |-> b, res |-> Panic]

\* get_bytes_mut, line 27: self.bytes.get_mut().unwrap() panics on a cell
\* that is not initialised; then the cursor operation of read or seek.
MutOutcome(call, b, initialized) ==
    IF ~initialized THEN [cur |-> b, res |-> CellPanic]
    ELSE IF call.name = "read" THEN ReadResult(b, call.n)
    ELSE SeekResult(b, call.whence, call.n)

\* The record of a completed read/seek.
Remember(l, call, res, b) ==
    [call |-> call, res |-> res, pre |-> b.pos,
     after |-> [name |-> l.call.name, whence |-> l.call.whence, kind |-> l.res.kind]]

\* A consumer reading to completion (test_csv, test_json: reader.finish()):
\* from position 0, reads with non-empty buffers until one returns 0.
NoDrain == [valid |-> FALSE, acc |-> <<>>, calls |-> 0, done |-> FALSE]
FreshDrain == [valid |-> TRUE, acc |-> <<>>, calls |-> 0, done |-> FALSE]

DrainStep(d, call, res) ==
    IF res.kind # "Ok" THEN NoDrain
    ELSE IF call.name = "seek"
    THEN IF call.whence = "Start" /\ call.n = 0 THEN FreshDrain ELSE NoDrain
    ELSE IF call.n = 0 THEN NoDrain
    ELSE IF ~d.valid \/ d.done THEN d
    ELSE [valid |-> TRUE,
          acc |-> d.acc \o SubSeq(res.buf, 1, res.n),
          calls |-> d.calls + 1,
          done |-> (res.n = 0)]

\* &mut self: no other borrow of the adapter is live.
Exclusive == \A u \in Threads : pc[u] = "idle"

\* &self: no &mut self call is in progress.
Shared == \A u \in Threads : pc[u] # "idle" => op[u].name = "to_bytes"

\* A new that fetches at construction.
Init_eager ==
    /\ pathUtf8 \in BOOLEAN
    /\ store \in IF pathUtf8 THEN {NoObject} \cup {Object(c) : c \in Contents} ELSE {NoObject}
    /\ once = "Complete"
    /\ fetched \in IF pathUtf8 THEN {FetchedValue(r) : r \in BlockingRead(store)} ELSE {None}
    /\ bytes = fetched
    /\ initCount = 1
    /\ fetchCount = (IF pathUtf8 THEN 1 ELSE 0)
    /\ pc = [t \in Threads |-> "idle"]
    /\ op = [t \in Threads |-> NoCall]
    /\ viewRet = [t \in Threads |-> NoView]
    /\ last = NoLast
    /\ drain = FreshDrain

\* OpendalReader::new over some store.
Init ==
    /\ pathUtf8 \in BOOLEAN
    /\ store \in IF pathUtf8 THEN {NoObject} \cup {Object(c) : c \in Contents} ELSE {NoObject}
    /\ once = "Incomplete"
    /\ bytes = Uninit
    /\ fetched = Uninit
    /\ initCount = 0
    /\ fetchCount = 0
    /\ pc = [t \in Threads |-> "idle"]
    /\ op = [t \in Threads |-> NoCall]
    /\ viewRet = [t \in Threads |-> NoView]
    /\ last = NoLast
    /\ drain = FreshDrain

\* A to_bytes that rewinds the cursor before handing out the buffer.
Finish_rewind(t, call, b, initialized) ==
    IF call.name = "to_bytes"
    THEN /\ bytes' = [b EXCEPT !.pos = 0]
         /\ viewRet' = [viewRet EXCEPT ![t] = ToBytesResult(b, store, pc[t] = "wait")]
         /\ UNCHANGED <<last, drain>>
    ELSE LET o == MutOutcome(call, b, initialized)
         IN  /\ bytes' = o.cur
             /\ last' = Remember(last, call, o.res, b)
             /\ drain' = DrainStep(drain, call, o.res)
             /\ viewRet' = [u \in Threads |-> NoView]

\* What remains of thread t's call once get_bytes has handed back the cell's
\* value b: the body of to_bytes, read or seek.  A &mut self call ends every
\* borrow handed out by to_bytes.
Finish(t, call, b, initialized) ==
    IF call.name = "to_bytes"
    THEN /\ bytes' = b
         /\ viewRet' = [viewRet EXCEPT ![t] = ToBytesResult(b, store, pc[t] = "wait")]
         /\ UNCHANGED <<last, drain>>
    ELSE LET o == MutOutcome(call, b, initialized)
         IN  /\ bytes' = o.cur
             /\ last' = Remember(last, call, o.res, b)
             /\ drain' = DrainStep(drain, call, o.res)
             /\ viewRet' = [u \in Threads |-> NoView]

\* A get_bytes that fetches on every call instead of going through the cell.
get_bytes_uncached(t, call) ==
    /\ pc' = [pc EXCEPT ![t] = IF once = "Running" THEN "wait" ELSE "closure"]
    /\ once' = "Running"
    /\ op' = [op EXCEPT ![t] = call]
    /\ UNCHANGED <<bytes, viewRet, last, drain>>

\* A get_bytes whose initialisation is not single-flight: a caller that finds
\* another one initialising runs the closure too.
get_bytes_racy(t, call) ==
    IF IsInitialized
    THEN /\ Finish(t, call, bytes, IsInitialized)
         /\ UNCHANGED <<once, pc, op>>
    ELSE /\ pc' = [pc EXCEPT ![t] = "closure"]
         /\ once' = "Running"
         /\ op' = [op EXCEPT ![t] = call]
         /\ UNCHANGED <<bytes, viewRet, last, drain>>

\* A get_bytes that retries when the cached value is None.
get_bytes_retry(t, call) ==
    IF IsInitialized /\ bytes.tag # "None"
    THEN /\ Finish(t, call, bytes, IsInitialized)
         /\ UNCHANGED <<once, pc, op>>
    ELSE /\ pc' = [pc EXCEPT ![t] = IF once = "Running" THEN "wait" ELSE "closure"]
         /\ once' = "Running"
         /\ op' = [op EXCEPT ![t] = call]
         /\ UNCHANGED <<bytes, viewRet, last, drain>>

\* A get_bytes that only peeks at the cell (OnceLock::get) and never
\* initialises it.
get_bytes_peek(t, call) ==
    /\ Finish(t, call, bytes, IsInitialized)
    /\ UNCHANGED <<once, pc, op>>

\* get_bytes, line 31: OnceLock::get_or_init.  Initialised: the call runs to
\* its end; nobody initialising: this thread will run the closure; somebody
\* initialising: this thread blocks.
get_bytes(t, call) ==
    IF IsInitialized
    THEN /\ Finish(t, call, bytes, IsInitialized)
         /\ UNCHANGED <<once, pc, op>>
    ELSE /\ pc' = [pc EXCEPT ![t] = IF once = "Incomplete" THEN "closure" ELSE "wait"]
         /\ once' = "Running"
         /\ op' = [op EXCEPT ![t] = call]
         /\ UNCHANGED <<bytes, viewRet, last, drain>>

\* A caller enters to_bytes (line 41).
to_bytes(t) ==
    /\ pc[t] = "idle"
    /\ Shared
    /\ get_bytes(t, ToBytesCall)
    /\ UNCHANGED <<store, pathUtf8, fetched, initCount, fetchCount>>

\* A caller enters read (line 49) with a buffer of length k.
read(k) ==
    /\ Exclusive
    /\ get_bytes(Owner, ReadCall(k))
    /\ UNCHANGED <<store, pathUtf8, fetched, initCount, fetchCount>>

\* A caller enters seek (line 57).
seek(whence, n) ==
    /\ Exclusive
    /\ get_bytes(Owner, SeekCall(whence, n))
    /\ UNCHANGED <<store, pathUtf8, fetched, initCount, fetchCount>>

\* The closure, lines 32-34: to_str, then the remote read is invoked; a path
\* that is no UTF-8 yields None at once and the call runs to its end.
closure(t) ==
    /\ pc[t] = "closure"
    /\ initCount' = initCount + 1
    /\ IF to_str
       THEN /\ fetchCount' = fetchCount + 1
            /\ pc' = [pc EXCEPT ![t] = "fetching"]
            /\ UNCHANGED <<once, bytes, fetched, op, viewRet, last, drain>>
       ELSE /\ once' = "Complete"
            /\ fetched' = None
            /\ Finish(t, op[t], None, once' = "Complete")
            /\ pc' = [pc EXCEPT ![t] = "idle"]
            /\ op' = [op EXCEPT ![t] = NoCall]
            /\ UNCHANGED fetchCount
    /\ UNCHANGED <<store, pathUtf8>>

\* The remote read returns (lines 34-35), the cell is set and the call runs
\* to its end.
fetch_return(t) ==
    /\ pc[t] = "fetching"
    /\ once' = "Complete"
    /\ \E r \in BlockingRead(store) :
          /\ fetched' = FetchedValue(r)
          /\ Finish(t, op[t], FetchedValue(r), once' = "Complete")
    /\ pc' = [pc EXCEPT ![t] = "idle"]
    /\ op' = [op EXCEPT ![t] = NoCall]
    /\ UNCHANGED <<store, pathUtf8, initCount, fetchCount>>

\* A blocked caller that waits for the wrong state of the OnceLock and so
\* misses the end of the initialisation: a lost wake-up.
once_wake_lost(t) ==
    /\ pc[t] = "wait"
    /\ once = "Incomplete"
    /\ Finish(t, op[t], bytes, IsInitialized)
    /\ pc' = [pc EXCEPT ![t] = "idle"]
    /\ op' = [op EXCEPT ![t] = NoCall]
    /\ UNCHANGED <<store, pathUtf8, once, fetched, initCount, fetchCount>>

\* A caller blocked in get_or_init resumes once the cell is initialised.
once_wake(t) ==
    /\ pc[t] = "wait"
    /\ IsInitialized
    /\ Finish(t, op[t], bytes, IsInitialized)
    /\ pc' = [pc EXCEPT ![t] = "idle"]
    /\ op' = [op EXCEPT ![t] = NoCall]
    /\ UNCHANGED <<store, pathUtf8, once, fetched, initCount, fetchCount>>

\* The remote store changes under the adapter: the object is written.
store_write(c) ==
    /\ pathUtf8
    /\ store # Object(c)
    /\ store' = Object(c)
    /\ UNCHANGED <<pathUtf8, once, bytes, fetched, initCount, fetchCount, pc, op, viewRet, last, drain>>

\* The object is deleted from the remote store.
store_delete ==
    /\ store.exists
    /\ store' = NoObject
    /\ UNCHANGED <<pathUtf8, once, bytes, fetched, initCount, fetchCount, pc, op, viewRet, last, drain>>

Next ==
    \/ \E t \in Threads : to_bytes(t)
    \/ \E k \in 0..MaxBuf : read(k)
    \/ \E a \in SeekFrom : seek(a[1], a[2])
    \/ \E t \in Threads : closure(t)
    \/ \E t \in Threads : fetch_return(t)
    \/ \E t \in Threads : once_wake(t)
    \/ \E c \in Contents : store_write(c)
    \/ store_delete

Spec == Init /\ [][Next]_vars

\* The threads are scheduled: a caller that can take its next step inside a
\* call takes it; and the remote read returns.  Callers are free not to call.
FairSpec ==
    /\ Spec
    /\ \A t \in Threads : WF_vars(closure(t))
    /\ \A t \in Threads : WF_vars(fetch_return(t))
    /\ \A t \in Threads : WF_vars(once_wake(t))

\* ------------------------------------------------------------ properties
Returned(t) == viewRet[t].tag # "NoCall"

InClosure(t) == pc[t] \in {"closure", "fetching"}

\* C1: the remote read is invoked at most once per adapter; once the cell is
\* initialised no caller is in or enters the closure again; and with a path
\* that names an object the count is exactly one from the first completed
\* access on.
C1_FetchAtMostOnce ==
    /\ fetchCount <= 1
    /\ IsInitialized => \A t \in Threads : ~InClosure(t)
    /\ (IsInitialized /\ pathUtf8) => fetchCount = 1
    /\ bytes.tag = "Some" => fetchCount = 1

\* Several accesses of all three kinds on an existing object, one fetch.
C1_Witness ==
    /\ fetchCount = 1
    /\ bytes.tag = "Some"
    /\ last.call.name = "read"
    /\ last.after.name = "seek"
    /\ \A t \in Threads : viewRet[t].tag = "Some"

\* C2: whenever a to_bytes caller has returned, the cell is initialised, the
\* closure has run exactly once (and the remote read once, or never for a
\* path that is no UTF-8), nobody is still fetching, and all returned results
\* are the same value, the one in the cell.
C2_SingleFlight ==
    /\ \A t \in Threads : Returned(t) =>
          /\ IsInitialized
          /\ initCount = 1
          /\ fetchCount = (IF pathUtf8 THEN 1 ELSE 0)
          /\ \A u \in Threads : ~InClosure(u)
          /\ viewRet[t].tag = bytes.tag
    /\ \A t, u \in Threads : (Returned(t) /\ Returned(u)) =>
          /\ viewRet[t].tag = viewRet[u].tag
          /\ viewRet[t].data = viewRet[u].data

\* Two callers raced on the uninitialised cell: one fetched, the other one
\* blocked, and both hold the same full-length content.
C2_Witness ==
    \E t, u \in Threads :
        /\ t # u
        /\ viewRet[t].tag = "Some" /\ ~viewRet[t].waited
        /\ viewRet[u].tag = "Some" /\ viewRet[u].waited
        /\ Len(viewRet[t].data) = MaxLen

\* C3: once the closure has produced bytes C for the cell, the cell holds C
\* in every later state, after any read, seek, to_bytes, write to or deletion
\* from the store, and every to_bytes result is C.
C3_ContentImmutable ==
    fetched.tag = "Some" =>
        /\ bytes.tag = "Some"
        /\ bytes.inner = fetched.inner
        /\ \A t \in Threads : Returned(t) =>
              (viewRet[t].tag = "Some" /\ viewRet[t].data = fetched.inner)

\* After a seek and a read that moved the cursor, to_bytes returned C while
\* the store no longer held C.
C3_Witness ==
    \E t \in Threads :
        /\ viewRet[t].tag = "Some"
        /\ viewRet[t].differs
        /\ viewRet[t].data # <<>>
        /\ last.call.name = "read" /\ last.res.n > 0
        /\ last.after.name = "seek"

\* C4: once the closure has produced None for the cell, the cell holds None
\* in every later state, nobody runs the closure or the remote read again,
\* and every to_bytes result is None, whatever the store holds by then.
C4_AbsentIsPermanent ==
    fetched.tag = "None" =>
        /\ bytes = None
        /\ once = "Complete"
        /\ initCount = 1
        /\ fetchCount <= 1
        /\ \A t \in Threads : ~InClosure(t)
        /\ \A t \in Threads : Returned(t) => viewRet[t].tag = "None"

\* Both callers were told None after the one fetch, one of them while the
\* object was in the store.
C4_Witness ==
    /\ bytes.tag = "None"
    /\ fetchCount = 1
    /\ \A t \in Threads : viewRet[t].tag = "None"
    /\ \E t \in Threads : viewRet[t].differs
    /\ store.exists

\* C5: a to_bytes result is the whole buffer of the cell's cursor, whatever
\* its position, and None exactly when the cell holds None.
C5_ViewIsWholeBuffer ==
    \A t \in Threads :
        /\ viewRet[t].tag = "Some" =>
              /\ bytes.tag = "Some"
              /\ viewRet[t].data = bytes.inner
              /\ Len(viewRet[t].data) = Len(bytes.inner)
        /\ viewRet[t].tag = "None" => (bytes.tag = "None" /\ viewRet[t].data = <<>>)

\* to_bytes returned with the cursor strictly inside the content.
C5_Witness ==
    \E t \in Threads :
        /\ viewRet[t].tag = "Some"
        /\ bytes.pos > 0
        /\ bytes.pos < Len(bytes.inner)
        /\ last.call.name = "read"
        /\ last.after.name = "seek"

\* The content's length.
L == Len(bytes.inner)

AfterSeek(w) == [name |-> "seek", whence |-> w, kind |-> "Ok"]

\* C6: with content C of length L, seek(Start, p) with p <= L returns p and
\* leaves the position at p until the next read or seek; the read(buf of
\* length k) that follows returns min(k, L - p), the first that many bytes
\* of buf are C[p : p + count], and the position is then p + count.
C6_SeekStartThenRead ==
    bytes.tag = "Some" =>
        /\ (last.call.name = "seek" /\ last.call.whence = "Start" /\ last.call.n <= L) =>
              (last.res = Ok(last.call.n, <<>>) /\ bytes.pos = last.call.n)
        /\ (last.call.name = "read" /\ last.after = AfterSeek("Start") /\ last.pre <= L) =>
              LET p == last.pre
                  k == last.call.n
                  count == Min(k, L - p)
              IN  /\ last.res.kind = "Ok"
                  /\ last.res.n = count
                  /\ Len(last.res.buf) = k
                  /\ SubSeq(last.res.buf, 1, count) = SubSeq(bytes.inner, p + 1, p + count)
                  /\ bytes.pos = p + count

\* A read from inside the content with a buffer longer than what is left.
C6_Witness ==
    /\ bytes.tag = "Some"
    /\ last.call.name = "read"
    /\ last.after = AfterSeek("Start")
    /\ last.pre > 0
    /\ last.res.n > 0
    /\ last.call.n > last.res.n

\* C7: with content of length L, seek(End, 0) returns L and leaves the
\* position at L; the read that follows returns Ok(0), whatever its buffer,
\* and touches neither the buffer nor the position.
C7_SeekEndThenRead ==
    bytes.tag = "Some" =>
        /\ last.call = SeekCall("End", 0) =>
              (last.res = Ok(L, <<>>) /\ bytes.pos = L)
        /\ (last.call.name = "read" /\ last.after = AfterSeek("End") /\ last.pre = L) =>
              (last.res = Ok(0, Fill(last.call.n)) /\ bytes.pos = L)

\* A read with a non-empty buffer right after seek(End, 0) on non-empty content.
C7_Witness ==
    /\ bytes.tag = "Some"
    /\ L > 0
    /\ last.call.name = "read"
    /\ last.call.n > 0
    /\ last.after = AfterSeek("End")
    /\ last.pre = L

\* C8: with content of length L, seek(Start, p) with p > L returns Ok(p) and
\* leaves the position at p, unclamped; every read at a position past the
\* end returns Ok(0) and leaves the position where it was.
C8_SeekPastEnd ==
    bytes.tag = "Some" =>
        /\ (last.call.name = "seek" /\ last.call.whence = "Start" /\ last.call.n > L) =>
              (last.res = Ok(last.call.n, <<>>) /\ bytes.pos = last.call.n)
        /\ (last.call.name = "read" /\ last.pre > L) =>
              (last.res = Ok(0, Fill(last.call.n)) /\ bytes.pos = last.pre)

\* A read with a non-empty buffer right after a seek(Start, p) past the end.
C8_Witness ==
    /\ bytes.tag = "Some"
    /\ L > 0
    /\ last.call.name = "read"
    /\ last.call.n > 0
    /\ last.after = AfterSeek("Start")
    /\ last.pre > L
    /\ bytes.pos = last.pre

\* C9: with content present, a seek(Current, d) with pos + d < 0 and a
\* seek(End, d) with L + d < 0 return Err: neither a panic nor a position.
C9_NegativeSeekFails ==
    (bytes.tag = "Some" /\ last.call.name = "seek") =>
        /\ (last.call.whence = "Current" /\ last.pre + last.call.n < 0) => last.res = Err
        /\ (last.call.whence = "End" /\ L + last.call.n < 0) => last.res = Err

\* A seek(Current, d) below 0 has returned.
C9_Witness ==
    /\ bytes.tag = "Some"
    /\ last.call.name = "seek"
    /\ last.call.whence = "Current"
    /\ last.pre + last.call.n < 0
    /\ last.after.name = "read"

\* C10: reading from position 0 with non-empty buffers until a read returns
\* 0: the bytes returned so far are a prefix of C, every call before the
\* last returned at least one byte, so that at most L + 1 calls are made, and
\* when the read that returns 0 comes the bytes returned are all of C.
C10_ReadToEnd ==
    (drain.valid /\ bytes.tag = "Some") =>
        /\ Len(drain.acc) <= L
        /\ drain.acc = SubSeq(bytes.inner, 1, Len(drain.acc))
        /\ bytes.pos = Len(drain.acc)
        /\ drain.calls <= L + 1
        /\ ~drain.done => drain.calls <= Len(drain.acc)
        /\ drain.done => drain.acc = bytes.inner

\* The longest content has been read to its end one byte at a time.
C10_Witness ==
    /\ drain.valid
    /\ drain.done
    /\ bytes.tag = "Some"
    /\ L = MaxLen
    /\ drain.calls = MaxLen + 1
    /\ drain.acc = bytes.inner

\* C11: while the cell holds None, every completed read or seek has ended in
\* the panic of the unwrap on the content (no count, no position, no io
\* error), the cell is still None with the closure run once and no further
\* remote read, and every to_bytes result is None.
C11_AbsentReadSeekPanics ==
    (bytes.tag = "None" /\ last # NoLast) =>
        /\ last.res = Panic
        /\ bytes = None
        /\ once = "Complete"
        /\ initCount = 1
        /\ fetchCount = (IF pathUtf8 THEN 1 ELSE 0)
        /\ \A t \in Threads : ~InClosure(t)
        /\ \A t \in Threads : Returned(t) => viewRet[t].tag = "None"

\* A read and a seek have both panicked on the absent content, and a to_bytes
\* called after them returned None.
C11_Witness ==
    /\ bytes.tag = "None"
    /\ last.call.name = "seek"
    /\ last.res = Panic
    /\ last.after = [name |-> "read", whence |-> "-", kind |-> "Panic"]
    /\ \E t \in Threads : viewRet[t].tag = "None"

\* C12: as long as no access has been made the OnceLock is Incomplete, with
\* no closure run, no remote read and an unwritten cell (so after new); a
\* caller inside the closure, whichever of to_bytes, read and seek it is in,
\* has not returned and sees the cell unwritten; and whenever a call has
\* returned the cell is initialised with Some or None.
C12_LazyFirstAccess ==
    /\ once = "Incomplete" =>
          /\ fetchCount = 0
          /\ initCount = 0
          /\ bytes = Uninit
          /\ fetched = Uninit
          /\ last = NoLast
          /\ \A t \in Threads : ~Returned(t)
    /\ (last = NoLast /\ \A t \in Threads : pc[t] = "idle" /\ ~Returned(t)) =>
          once = "Incomplete"
    /\ \A t \in Threads : pc[t] # "idle" =>
          /\ op[t].name \in {"to_bytes", "read", "seek"}
          /\ ~Returned(t)
          /\ InClosure(t) => (once = "Running" /\ bytes = Uninit /\ last = NoLast)
    /\ (last # NoLast \/ \E t \in Threads : Returned(t)) =>
          (IsInitialized /\ bytes.tag \in {"Some", "None"})

\* The first access is a seek: it has invoked the remote read and has not
\* returned, the cell being still unwritten.
C12_Witness ==
    /\ pc[Owner] = "fetching"
    /\ op[Owner].name = "seek"
    /\ fetchCount = 1
    /\ once = "Running"
    /\ bytes = Uninit

\* The position the last completed read or seek left: where it started plus
\* the bytes a read returned, the position a successful seek returned, and
\* 0 when there has been neither.
PosLeftBy(l) ==
    IF l.res.kind # "Ok" THEN l.pre
    ELSE IF l.call.name = "read" THEN l.pre + l.res.n
    ELSE l.res.n

\* C13: the position is always the one the last completed read or seek left
\* (0 before the first): no to_bytes call, the one that ran the fetch or
\* blocked on it included, and no change of the store moves it.
C13_ViewKeepsPosition ==
    bytes.tag = "Some" => bytes.pos = PosLeftBy(last)

\* to_bytes has returned to both callers after a read left the cursor
\* inside the content.
C13_Witness ==
    /\ bytes.tag = "Some"
    /\ last.call.name = "read"
    /\ bytes.pos > 0
    /\ bytes.pos < L
    /\ \A t \in Threads : viewRet[t].tag = "Some"

\* C14: with content of length L and position q, a seek that succeeds
\* returns the new position: p for Start(p), q + d for Current(d), L + d for
\* End(d); seek(Current, 0) succeeds, returns q and leaves the position q.
C14_SeekReturnsNewPosition ==
    (bytes.tag = "Some" /\ last.call.name = "seek") =>
        /\ last.res.kind = "Ok" =>
              /\ last.res.n = bytes.pos
              /\ last.res.buf = <<>>
              /\ last.call.whence = "Start" => last.res.n = last.call.n
              /\ last.call.whence = "Current" => last.res.n = last.pre + last.call.n
              /\ last.call.whence = "End" => last.res.n = L + last.call.n
        /\ last.call = SeekCall("Current", 0) =>
              (last.res = Ok(last.pre, <<>>) /\ bytes.pos = last.pre)

\* A seek(Current, d) backwards from a position inside or past the content.
C14_Witness ==
    /\ bytes.tag = "Some"
    /\ last.call.name = "seek"
    /\ last.call.whence = "Current"
    /\ last.call.n < 0
    /\ last.res.kind = "Ok"
    /\ last.pre > 1

\* C15: given that the remote read returns, every call that has been started,
\* the ones that found the cell uninitialised or being initialised included,
\* returns; and once the cell is initialised no call stays behind in
\* get_or_init: a call started then returns in the step that starts it.
C15_EveryAccessCompletes ==
    /\ \A t \in Threads : (pc[t] # "idle") ~> (pc[t] = "idle")
    /\ [][IsInitialized => \A t \in Threads : pc[t] = "idle" => pc'[t] = "idle"]_vars

\* The remote read has failed, and the caller that was blocked on it has
\* returned; nobody is in a call.
C15_Witness ==
    /\ IsInitialized
    /\ bytes.tag = "None"
    /\ fetchCount = 1
    /\ \A t \in Threads : pc[t] = "idle"
    /\ \E u \in Threads : viewRet[u].waited

\* C16: with a path that is no UTF-8 the remote read is never invoked, by no
\* caller and at no time; the first access leaves None in the cell after one
\* run of the closure, and from then on the cell stays None, the closure is
\* not run again, every to_bytes result is None and every read or seek
\* panics, as after a failed remote read.
C16_NonUtf8PathIsAbsent ==
    ~pathUtf8 =>
        /\ fetchCount = 0
        /\ \A t \in Threads : pc[t] # "fetching"
        /\ fetched \in {Uninit, None}
        /\ IsInitialized =>
              /\ bytes = None
              /\ fetched = None
              /\ initCount = 1
              /\ \A t \in Threads : ~InClosure(t)
        /\ \A t \in Threads : Returned(t) => viewRet[t].tag = "None"
        /\ last.call.name # "none" => last.res = Panic

\* With a path that is no UTF-8: a read has panicked, both callers have been
\* told None since, and the remote read was never invoked.
C16_Witness ==
    /\ ~pathUtf8
    /\ bytes = None
    /\ initCount = 1
    /\ fetchCount = 0
    /\ last.call.name = "read"
    /\ last.res = Panic
    /\ \A t \in Threads : viewRet[t].tag = "None"

\* C17: the cursor the closure produces is at position 0, and it is still
\* there when the first read or seek starts, whoever ran the closure and
\* however many to_bytes calls came before: a first read(buf of length k)
\* returns C[0 : min(k, L)] and leaves the position at min(k, L), and a
\* first seek(Current, d) returns d for d >= 0 and fails for d < 0.
C17_StartsAtZero ==
    /\ fetched.tag = "Some" => fetched.pos = 0
    /\ (bytes.tag = "Some" /\ last = NoLast) => bytes.pos = 0
    /\ (bytes.tag = "Some" /\ last.call.name # "none" /\ last.after.name = "none") =>
          /\ last.pre = 0
          /\ last.call.name = "read" =>
                LET k == last.call.n
                    count == Min(k, L)
                IN  /\ last.res.kind = "Ok"
                    /\ last.res.n = count
                    /\ Len(last.res.buf) = k
                    /\ SubSeq(last.res.buf, 1, count) = SubSeq(bytes.inner, 1, count)
                    /\ bytes.pos = count
          /\ (last.call.name = "seek" /\ last.call.whence = "Current") =>
                IF last.call.n < 0
                THEN last.res = Err /\ bytes.pos = 0
                ELSE last.res = Ok(last.call.n, <<>>) /\ bytes.pos = last.call.n

\* The first read or seek on the adapter was a seek(Current, d) forward on
\* non-empty content, and to_bytes has returned the content to both callers.
C17_Witness ==
    /\ bytes.tag = "Some"
    /\ L > 0
    /\ last.call.name = "seek"
    /\ last.call.whence = "Current"
    /\ last.call.n > 0
    /\ last.after.name = "none"
    /\ bytes.pos = last.call.n
    /\ \A t \in Threads : viewRet[t].tag = "Some"

\* C18: a seek that has failed (target below 0, or not a u64) has left the
\* position where it was and the content what the closure produced; the read
\* that follows it is the read from that position: min(k, L - min(pos, L))
\* bytes of C from there on.
C18_FailedSeekChangesNothing ==
    bytes.tag = "Some" =>
        /\ (last.call.name = "seek" /\ last.res.kind = "Err") =>
              /\ bytes.pos = last.pre
              /\ bytes.inner = fetched.inner
              /\ last.res = Err
        /\ (last.call.name = "read" /\ last.after.name = "seek" /\ last.after.kind = "Err") =>
              LET k == last.call.n
                  start == Min(last.pre, Len(fetched.inner))
                  count == Min(k, Len(fetched.inner) - start)
              IN  /\ last.res.kind = "Ok"
                  /\ last.res.n = count
                  /\ Len(last.res.buf) = k
                  /\ SubSeq(last.res.buf, 1, count) = SubSeq(fetched.inner, start + 1, start + count)
                  /\ bytes.pos = last.pre + count
                  /\ bytes.inner = fetched.inner

\* A seek(Current, d) to below 0 had failed, and the read after it returned
\* all of the longest content.
C18_Witness ==
    /\ bytes.tag = "Some"
    /\ L = MaxLen
    /\ last.call.name = "read"
    /\ last.after = [name |-> "seek", whence |-> "Current", kind |-> "Err"]
    /\ last.res.n = MaxLen
    /\ last.pre = 0

\* C19: no read or seek has ended in the panic of get_mut().unwrap() on the
\* cell: whenever one has completed the OnceLock is initialised; a read or
\* seek has panicked only if the cell holds None, and with Some in the cell
\* it has returned Ok or Err.
C19_CellUnwrapNeverPanics ==
    /\ last.res.kind # "CellPanic"
    /\ last.call.name # "none" => (IsInitialized /\ bytes.tag \in {"Some", "None"})
    /\ last.res.kind = "Panic" => bytes.tag = "None"
    /\ (bytes.tag = "Some" /\ last.call.name # "none") => last.res.kind \in {"Ok", "Err"}

\* The very first call on the adapter was a seek: it ran the closure itself,
\* the remote read failed although the object exists, and the seek panicked
\* on the absent content.
C19_Witness ==
    /\ pathUtf8
    /\ fetchCount = 1
    /\ store.exists
    /\ bytes = None
    /\ last.call.name = "seek"
    /\ last.after.name = "none"
    /\ last.res = Panic
    /\ \A t \in Threads : ~Returned(t)

====
